---- MODULE Spec2Model ----
(***************************************************************************)
(* Spill backend: relationship store (Follow / Block / Mute /              *)
(* FollowRequest), poll / response visibility rules, the admin visibility  *)
(* simulator and flip-flop counting, as state machines over the store.     *)
(***************************************************************************)
EXTENDS Integers, FiniteSets, Sequences, TLC

\* ------------------------------------------------------------------ universe
Users == {"alice", "bob"}
\* viewerId === null: an unauthenticated viewer
Anonymous == "null"
Viewers == Users \cup {Anonymous}
\* ordered pairs of distinct users: the composite keys of the edge tables
Pairs == {p \in Users \X Users : p[1] # p[2]}

RequestStatus == {"PENDING", "ACCEPTED", "REJECTED"}
NoRequest == "NONE"

VARIABLES
  follows,         \* Follow rows: set of <<followerId, followeeId>>
  blocks,          \* Block rows: set of <<blockerId, blockedId>>
  mutes,           \* Mute rows: set of <<muterId, mutedId>>
  isPrivate,       \* User.isPrivate, per user
  followRequests,  \* FollowRequest rows: <<followerId, followeeId>> -> status or NoRequest
  polls,           \* Poll rows: pollId -> row or NoRow
  votes,           \* Vote rows: <<pollId, voterId, optionId>> -> row or NoRow
  sliderResponses, \* SliderResponse rows: <<pollId, userId>> -> row or NoRow
  procs,           \* requests in flight: their position and what they have read
  last,            \* outcome of the last completed relationship call
  sim,             \* outcome of the last completed visibility decision
  userRows         \* User rows as provisioning sees them: set of [clerkId, handle]

contentVars == <<polls, votes, sliderResponses>>

vars == <<follows, blocks, mutes, isPrivate, followRequests, polls, votes,
          sliderResponses, procs, last, sim, userRows>>

\* publicComment === null
NoComment == "null"
Comments == {NoComment, "c1"}

\* the fields of a response row (Vote or SliderResponse) a call is observed by
NoRow == [exists |-> FALSE, isHidden |-> FALSE, isSharedPublicly |-> FALSE,
          publicComment |-> NoComment, flipFlopCount |-> 0]

NoLast == [op |-> "none", a |-> "none", b |-> "none", result |-> "none",
           preFollow |-> FALSE, preFollowBack |-> FALSE, preBlock |-> FALSE,
           prePrivate |-> FALSE, preRequest |-> NoRequest,
           pollId |-> "none", optionId |-> "none", value |-> 0,
           preRow |-> NoRow, postRow |-> NoRow,
           preValue |-> 0, afterRemove |-> FALSE, removedCount |-> 0,
           flipFlopCount |-> 0]

\* the observation of a call op(a, b) that ended with result r, with the store as
\* it was when the call started
Call(op, a, b, r) ==
  [NoLast EXCEPT
     !.op = op, !.a = a, !.b = b, !.result = r,
     !.preFollow = <<a, b>> \in follows,
     !.preFollowBack = <<b, a>> \in follows,
     !.preBlock = <<a, b>> \in blocks,
     !.prePrivate = IF b \in Users THEN isPrivate[b] ELSE FALSE,
     !.preRequest = IF <<a, b>> \in Pairs THEN followRequests[<<a, b>>] ELSE NoRequest]

\* the observed fields of a Vote or SliderResponse row
RowOf(row) ==
  [exists |-> row.exists, isHidden |-> row.isHidden,
   isSharedPublicly |-> row.isSharedPublicly, publicComment |-> row.publicComment,
   flipFlopCount |-> row.flipFlopCount]

\* the observation of a call on a response of userId to pollId that ended with
\* result r: the row before the call and the row after it
ResponseCall(op, userId, pollId, optionId, value, r, pre, post) ==
  [NoLast EXCEPT
     !.op = op, !.a = userId, !.pollId = pollId, !.optionId = optionId,
     !.value = value, !.result = r, !.preRow = RowOf(pre), !.postRow = RowOf(post)]

\* ------------------------------------------------------- social graph queries
isFollowing(followerId, followeeId) == <<followerId, followeeId>> \in follows

isBlocked(blockerId, blockedId) == <<blockerId, blockedId>> \in blocks

isMuted(muterId, mutedId) == <<muterId, mutedId>> \in mutes

getMutualFollows(userId1, userId2) ==
  LET follow1 == isFollowing(userId1, userId2)
      follow2 == isFollowing(userId2, userId1)
  IN [user1FollowsUser2 |-> follow1,
      user2FollowsUser1 |-> follow2,
      areMutuals |-> follow1 /\ follow2]

\* a plausible slip: one edge is enough to count as mutual
mutualFollowsOf_eitherEdge(follow1, follow2) ==
  [user1FollowsUser2 |-> follow1,
   user2FollowsUser1 |-> follow2,
   areMutuals |-> follow1 \/ follow2]

\* what getMutualFollows returns from the results of its two lookups
mutualFollowsOf(follow1, follow2) ==
  [user1FollowsUser2 |-> follow1,
   user2FollowsUser1 |-> follow2,
   areMutuals |-> follow1 /\ follow2]

\* UserValidations.validateUserIds: TRUE when the pair is rejected
\* a plausible slip: only the presence of both ids is checked
validateUserIds_requiredOnly(userId1, userId2) == FALSE

validateUserIds(userId1, userId2) == userId1 = userId2

\* -------------------------------------------------- relationship mutations
\* Each operator gives the call's result and the tables it leaves behind.

\* a plausible slip: the arguments of the block lookup are swapped, so the
\* follower's own Block row is what rejects
follow_blockLookupSwapped(followerId, followeeId) ==
  IF validateUserIds(followerId, followeeId)
    THEN [result |-> "VALIDATION_ERROR", follows |-> follows]
  ELSE IF isFollowing(followerId, followeeId)
    THEN [result |-> "CONFLICT", follows |-> follows]
  ELSE IF isBlocked(followerId, followeeId)
    THEN [result |-> "CONFLICT", follows |-> follows]
  ELSE [result |-> "OK", follows |-> follows \cup {<<followerId, followeeId>>}]

follow(followerId, followeeId) ==
  IF validateUserIds(followerId, followeeId)
    THEN [result |-> "VALIDATION_ERROR", follows |-> follows]
  ELSE IF isFollowing(followerId, followeeId)
    THEN [result |-> "CONFLICT", follows |-> follows]
  ELSE IF isBlocked(followeeId, followerId)
    THEN [result |-> "CONFLICT", follows |-> follows]
  ELSE [result |-> "OK", follows |-> follows \cup {<<followerId, followeeId>>}]

\* a plausible slip: the create re-reads the Block row in the same store call
followCreate_recheckBlock(followerId, followeeId) ==
  IF isBlocked(followeeId, followerId) \/ isFollowing(followerId, followeeId)
    THEN [result |-> "CONFLICT", follows |-> follows]
    ELSE [result |-> "OK", follows |-> follows \cup {<<followerId, followeeId>>}]

\* a plausible slip: a failure of the create is swallowed
followCreate_swallowUniqueViolation(followerId, followeeId) ==
  [result |-> "OK", follows |-> follows \cup {<<followerId, followeeId>>}]

\* the last store call of follow, prisma.follow.create under withErrorMapping:
\* a row with the same key violates the primary key (P2002), which
\* mapPrismaError turns into ConflictError
followCreate(followerId, followeeId) ==
  IF isFollowing(followerId, followeeId)
    THEN [result |-> "CONFLICT", follows |-> follows]
    ELSE [result |-> "OK", follows |-> follows \cup {<<followerId, followeeId>>}]

unfollow(followerId, followeeId) ==
  IF isFollowing(followerId, followeeId)
    THEN [result |-> "OK", follows |-> follows \ {<<followerId, followeeId>>}]
    ELSE [result |-> "NOT_FOUND", follows |-> follows]

\* a plausible slip: the cascade removes only the blocker's own Follow edge
block_cascadeOwnEdgeOnly(blockerId, blockedId) ==
  IF validateUserIds(blockerId, blockedId)
    THEN [result |-> "VALIDATION_ERROR", follows |-> follows, blocks |-> blocks]
    ELSE [result |-> "OK",
          follows |-> follows \ {<<blockerId, blockedId>>},
          blocks |-> blocks \cup {<<blockerId, blockedId>>}]

\* a plausible slip: the Block row is upserted and no Follow edge is removed
block_upsertOnly(blockerId, blockedId) ==
  IF validateUserIds(blockerId, blockedId)
    THEN [result |-> "VALIDATION_ERROR", follows |-> follows, blocks |-> blocks]
    ELSE [result |-> "OK",
          follows |-> follows,
          blocks |-> blocks \cup {<<blockerId, blockedId>>}]

\* validate, then both unfollow calls with their failures swallowed, then the
\* upsert of the Block row (an existing row is updated, never a conflict)
block(blockerId, blockedId) ==
  IF validateUserIds(blockerId, blockedId)
    THEN [result |-> "VALIDATION_ERROR", follows |-> follows, blocks |-> blocks]
    ELSE [result |-> "OK",
          follows |-> (follows \ {<<blockerId, blockedId>>}) \ {<<blockedId, blockerId>>},
          blocks |-> blocks \cup {<<blockerId, blockedId>>}]

\* the last store call of block, prisma.block.upsert: the Block rows after it
blockUpsert(blockerId, blockedId) == blocks \cup {<<blockerId, blockedId>>}

unblock(blockerId, blockedId) ==
  IF isBlocked(blockerId, blockedId)
    THEN [result |-> "OK", blocks |-> blocks \ {<<blockerId, blockedId>>}]
    ELSE [result |-> "NOT_FOUND", blocks |-> blocks]

mute(muterId, mutedId) ==
  IF validateUserIds(muterId, mutedId)
    THEN [result |-> "VALIDATION_ERROR", mutes |-> mutes]
    ELSE [result |-> "OK", mutes |-> mutes \cup {<<muterId, mutedId>>}]

\* a plausible slip: deleteMany in place of delete, which succeeds on no row
unmute_deleteMany(muterId, mutedId) ==
  [result |-> "OK", mutes |-> mutes \ {<<muterId, mutedId>>}]

unmute(muterId, mutedId) ==
  IF isMuted(muterId, mutedId)
    THEN [result |-> "OK", mutes |-> mutes \ {<<muterId, mutedId>>}]
    ELSE [result |-> "NOT_FOUND", mutes |-> mutes]

\* ------------------------------------------------ follow-request lifecycle
getFollowRequest(followerId, followeeId) ==
  IF <<followerId, followeeId>> \in Pairs
    THEN followRequests[<<followerId, followeeId>>]
    ELSE NoRequest

\* a row of the FollowRequest table: composite primary key, status defaults to
\* PENDING; a second row for the same pair violates the key
createFollowRequest(followerId, followeeId) ==
  IF validateUserIds(followerId, followeeId)
    THEN [result |-> "VALIDATION_ERROR", followRequests |-> followRequests]
  ELSE IF ~isPrivate[followeeId]
    THEN [result |-> "VALIDATION_ERROR", followRequests |-> followRequests]
  ELSE IF getFollowRequest(followerId, followeeId) # NoRequest
    THEN [result |-> "CONFLICT", followRequests |-> followRequests]
  ELSE [result |-> "OK",
        followRequests |-> [followRequests EXCEPT ![<<followerId, followeeId>>] = "PENDING"]]

\* a plausible slip: accepting without looking at the request's status
acceptFollowRequest_anyStatus(followerId, followeeId) ==
  IF getFollowRequest(followerId, followeeId) = NoRequest
    THEN [result |-> "NOT_FOUND", follows |-> follows, followRequests |-> followRequests]
    ELSE [result |-> "OK",
          follows |-> follows \cup {<<followerId, followeeId>>},
          followRequests |-> [followRequests EXCEPT ![<<followerId, followeeId>>] = "ACCEPTED"]]

acceptFollowRequest(followerId, followeeId) ==
  IF getFollowRequest(followerId, followeeId) = NoRequest
    THEN [result |-> "NOT_FOUND", follows |-> follows, followRequests |-> followRequests]
  ELSE IF getFollowRequest(followerId, followeeId) # "PENDING"
    THEN [result |-> "VALIDATION_ERROR", follows |-> follows, followRequests |-> followRequests]
  ELSE [result |-> "OK",
        follows |-> follows \cup {<<followerId, followeeId>>},
        followRequests |-> [followRequests EXCEPT ![<<followerId, followeeId>>] = "ACCEPTED"]]

rejectFollowRequest(followerId, followeeId) ==
  IF getFollowRequest(followerId, followeeId) = NoRequest
    THEN [result |-> "NOT_FOUND", followRequests |-> followRequests]
  ELSE IF getFollowRequest(followerId, followeeId) # "PENDING"
    THEN [result |-> "VALIDATION_ERROR", followRequests |-> followRequests]
  ELSE [result |-> "OK",
        followRequests |-> [followRequests EXCEPT ![<<followerId, followeeId>>] = "REJECTED"]]

\* ------------------------------------------------------------ polls, responses
PollIds == {"p1"}
Options == {"o1", "o2"}
Visibilities == {"PUBLIC", "FRIENDS_ONLY", "PRIVATE_LINK"}

\* privateLinkToken === null / providedToken === undefined
NoToken == "undefined"
\* tokens a caller can put in a request: none, the empty string, the poll's, another
ProvidedTokens == {NoToken, "", "T1", "T2"}

\* randomBytes(32).toString('base64url'): never empty, distinct per poll
generatePrivateLinkToken(pollId) == "T1"

\* JavaScript truthiness of an optional string
Truthy(token) == token # NoToken /\ token # ""

\* Poll.selectionType and Poll.maxSelections are nullable columns
SelectionTypes == {"SINGLE", "MULTIPLE"}
NoSelection == "null"
NoMax == 0

NoPoll == [exists |-> FALSE, ownerId |-> "none", visibility |-> "PUBLIC",
           privateLinkToken |-> NoToken, isContinuous |-> FALSE,
           selectionType |-> NoSelection, maxSelections |-> NoMax]

NoVote == [exists |-> FALSE, pollId |-> "none", voterId |-> "none", optionId |-> "none",
           isHidden |-> FALSE, isSharedPublicly |-> FALSE, publicComment |-> NoComment,
           flipFlopCount |-> 0]

NoSliderResponse == [exists |-> FALSE, pollId |-> "none", userId |-> "none", value |-> 0,
                     isHidden |-> FALSE, isSharedPublicly |-> FALSE,
                     publicComment |-> NoComment, flipFlopCount |-> 0]

VoteKeys == PollIds \X Users \X Options
SliderKeys == PollIds \X Users

\* -------------------------------------------------- domain/visibility.ts
canViewPoll(context) ==
  IF context.pollVisibility = "PRIVATE_LINK" THEN
    IF ~Truthy(context.providedToken) \/ context.privateLinkToken # context.providedToken
      THEN FALSE
      ELSE TRUE
  ELSE IF context.pollVisibility = "PUBLIC" THEN TRUE
  ELSE IF context.pollVisibility = "FRIENDS_ONLY" THEN
    IF context.viewerId = Anonymous THEN FALSE
    ELSE IF context.ownerId = context.viewerId THEN TRUE
    ELSE context.areMutuals
  ELSE FALSE

canViewProfile(context) ==
  IF context.viewerId = context.profileId THEN TRUE
  ELSE IF context.isPrivate THEN
    IF context.viewerId = Anonymous THEN FALSE ELSE context.areMutuals
  ELSE TRUE

canViewResponse(context) ==
  IF ~context.canViewPoll THEN FALSE
  ELSE IF context.viewerId = context.responseOwnerId THEN TRUE
  ELSE IF context.isHidden THEN FALSE
  ELSE TRUE

\* ------------------------------------------- PollRepository.canViewPoll
\* a plausible slip: the owner of a PRIVATE_LINK poll passes without the token
PollRepository_canViewPoll_ownerSkipsToken(pollId, viewerId, privateLinkToken) ==
  LET poll == polls[pollId] IN
  IF poll.visibility = "PRIVATE_LINK" THEN
    poll.ownerId = viewerId
      \/ (Truthy(privateLinkToken) /\ poll.privateLinkToken = privateLinkToken)
  ELSE IF poll.visibility = "PUBLIC" THEN TRUE
  ELSE IF viewerId = Anonymous THEN FALSE
  ELSE IF poll.ownerId = viewerId THEN TRUE
  ELSE getMutualFollows(viewerId, poll.ownerId).areMutuals

\* a plausible slip: a one-way follower of the owner passes as a friend
PollRepository_canViewPoll_oneWayFollow(pollId, viewerId, privateLinkToken) ==
  LET poll == polls[pollId] IN
  IF poll.visibility = "PRIVATE_LINK" THEN
    Truthy(privateLinkToken) /\ poll.privateLinkToken = privateLinkToken
  ELSE IF poll.visibility = "PUBLIC" THEN TRUE
  ELSE IF viewerId = Anonymous THEN FALSE
  ELSE IF poll.ownerId = viewerId THEN TRUE
  ELSE getMutualFollows(viewerId, poll.ownerId).user1FollowsUser2

\* a plausible slip: a block between viewer and owner hides a PUBLIC poll
PollRepository_canViewPoll_blockHidesPublic(pollId, viewerId, privateLinkToken) ==
  LET poll == polls[pollId] IN
  IF poll.visibility = "PRIVATE_LINK" THEN
    Truthy(privateLinkToken) /\ poll.privateLinkToken = privateLinkToken
  ELSE IF poll.visibility = "PUBLIC" THEN
    ~isBlocked(viewerId, poll.ownerId) /\ ~isBlocked(poll.ownerId, viewerId)
  ELSE IF viewerId = Anonymous THEN FALSE
  ELSE IF poll.ownerId = viewerId THEN TRUE
  ELSE getMutualFollows(viewerId, poll.ownerId).areMutuals

\* a plausible slip: a viewer who muted the owner loses the owner's
\* FRIENDS_ONLY polls, as the feed filter would drop them
PollRepository_canViewPoll_muteHidesFriendsOnly(pollId, viewerId, privateLinkToken) ==
  LET poll == polls[pollId] IN
  IF poll.visibility = "PRIVATE_LINK" THEN
    Truthy(privateLinkToken) /\ poll.privateLinkToken = privateLinkToken
  ELSE IF poll.visibility = "PUBLIC" THEN TRUE
  ELSE IF viewerId = Anonymous THEN FALSE
  ELSE IF poll.ownerId = viewerId THEN TRUE
  ELSE getMutualFollows(viewerId, poll.ownerId).areMutuals /\ ~isMuted(viewerId, poll.ownerId)

PollRepository_canViewPoll(pollId, viewerId, privateLinkToken) ==
  LET poll == polls[pollId] IN
  IF poll.visibility = "PRIVATE_LINK" THEN
    IF ~Truthy(privateLinkToken) \/ poll.privateLinkToken # privateLinkToken
      THEN FALSE
      ELSE TRUE
  ELSE IF poll.visibility = "PUBLIC" THEN TRUE
  ELSE IF poll.visibility = "FRIENDS_ONLY" THEN
    IF viewerId = Anonymous THEN FALSE
    ELSE IF poll.ownerId = viewerId THEN TRUE
    ELSE getMutualFollows(viewerId, poll.ownerId).areMutuals
  ELSE FALSE

\* the context a caller of the domain rules assembles from the store
pollContext(pollId, viewerId, providedToken) ==
  [pollVisibility |-> polls[pollId].visibility,
   viewerId |-> viewerId,
   ownerId |-> polls[pollId].ownerId,
   privateLinkToken |-> polls[pollId].privateLinkToken,
   providedToken |-> providedToken,
   areMutuals |-> viewerId # Anonymous
                    /\ getMutualFollows(viewerId, polls[pollId].ownerId).areMutuals]

profileContext(profileId, viewerId) ==
  [viewerId |-> viewerId,
   profileId |-> profileId,
   isPrivate |-> isPrivate[profileId],
   areMutuals |-> viewerId # Anonymous /\ getMutualFollows(viewerId, profileId).areMutuals]

responseContext(pollId, responseOwnerId, isHidden, viewerId, providedToken) ==
  [canViewPoll |-> canViewPoll(pollContext(pollId, viewerId, providedToken)),
   responseOwnerId |-> responseOwnerId,
   viewerId |-> viewerId,
   isHidden |-> isHidden]

\* ------------------------------------------ AdminService.simulateVisibility
simulatePoll(viewerUserId, targetId) ==
  LET canView == PollRepository_canViewPoll(targetId, viewerUserId, NoToken)
      poll == polls[targetId]
      reason ==
        IF canView THEN "OK"
        ELSE IF poll.visibility = "PRIVATE_LINK" THEN "PRIVATE_LINK_REQUIRED"
        ELSE IF poll.visibility = "FRIENDS_ONLY" THEN
          IF getMutualFollows(viewerUserId, poll.ownerId).areMutuals
            THEN "OK" ELSE "NOT_MUTUALS"
        ELSE "BLOCKED"
  IN [allowed |-> canView, reason |-> reason]

\* vote and sliderResponse are the rows the two lookups by id return; a lookup
\* that finds nothing returns the row with exists = FALSE
simulateResponse(viewerUserId, vote, sliderResponse) ==
  LET pollId == IF vote.exists THEN vote.pollId ELSE sliderResponse.pollId
      canViewPollNow == PollRepository_canViewPoll(pollId, viewerUserId, NoToken)
      reason ==
        IF ~canViewPollNow THEN "CANNOT_VIEW_POLL"
        ELSE IF vote.exists /\ vote.voterId # viewerUserId /\ vote.isHidden
          THEN "VOTE_HIDDEN"
        ELSE IF sliderResponse.exists /\ sliderResponse.userId # viewerUserId
                /\ sliderResponse.isHidden
          THEN "RESPONSE_HIDDEN"
        ELSE "OK"
  IN [allowed |-> canViewPollNow
                    /\ ~((vote.exists /\ vote.isHidden)
                          \/ (sliderResponse.exists /\ sliderResponse.isHidden)),
      reason |-> reason]

simulateProfile(viewerUserId, targetId) ==
  LET privateDenied ==
        /\ isPrivate[targetId]
        /\ targetId # viewerUserId
        /\ ~getMutualFollows(viewerUserId, targetId).areMutuals
      blocked == isBlocked(viewerUserId, targetId) \/ isBlocked(targetId, viewerUserId)
  IN [allowed |-> ~privateDenied /\ ~blocked,
      reason |-> IF blocked THEN "BLOCKED"
                 ELSE IF privateDenied THEN "PRIVATE_NOT_MUTUALS"
                 ELSE "OK"]

\* UserService.getUserByHandle: TRUE when the profile is returned, FALSE when
\* the call ends in NotFoundError
getUserByHandle(profileId, viewerId) ==
  LET areMutuals == viewerId # Anonymous /\ getMutualFollows(viewerId, profileId).areMutuals
      isOwner == viewerId = profileId
  IN isOwner \/ ~isPrivate[profileId] \/ areMutuals

\* handles a request can name: each user's own, and one no user has
Handles == Users \cup {"nobody"}

\* UserRepository.findByHandleOrThrow: TRUE when a user has the handle
findByHandleOrThrow(handle) == handle \in Users

\* how a call of UserService.getUserByHandle ends: the error it throws or
\* "none" when it returns the profile; found and denied tell which of the two
\* throw statements was reached
getUserByHandleOutcome(handle, viewerId) ==
  IF ~findByHandleOrThrow(handle)
    THEN [thrown |-> "NOT_FOUND", found |-> FALSE, denied |-> FALSE]
  ELSE IF ~getUserByHandle(handle, viewerId)
    THEN [thrown |-> "NOT_FOUND", found |-> TRUE, denied |-> TRUE]
  ELSE [thrown |-> "none", found |-> TRUE, denied |-> FALSE]

\* GET /users/:handle: TRUE when the profile is returned, FALSE on 403
getUserRoute(profileId, viewerId) ==
  ~(isPrivate[profileId] /\ viewerId # profileId)

\* ------------------------------------------------- poll and response writes
\* PollRepository.create: the row a new poll gets
\* TRUE when PollValidations.validateDiscretePollData throws on the selection
\* fields: a discrete poll needs a selection type, and a MULTIPLE one a
\* maxSelections between 1 and the number of options
validateDiscretePollData(isContinuous, selectionType, maxSelections) ==
  /\ ~isContinuous
  /\ \/ selectionType = NoSelection
     \/ /\ selectionType = "MULTIPLE"
        /\ (maxSelections = NoMax \/ maxSelections < 1 \/ maxSelections > Cardinality(Options))

\* TRUE when PollValidations.validateContinuousPollData throws on the selection
\* fields: a continuous poll has neither
validateContinuousPollData(isContinuous, selectionType, maxSelections) ==
  /\ isContinuous
  /\ (selectionType # NoSelection \/ maxSelections # NoMax)

\* the row prisma.poll.create stores once the validations have passed
create(pollId, ownerId, visibility, isContinuous, selectionType, maxSelections) ==
  [exists |-> TRUE, ownerId |-> ownerId, visibility |-> visibility,
   privateLinkToken |-> IF visibility = "PRIVATE_LINK"
                          THEN generatePrivateLinkToken(pollId) ELSE NoToken,
   isContinuous |-> isContinuous,
   selectionType |-> selectionType, maxSelections |-> maxSelections]

\* PollRepository.update with data.visibility present: the row's visibility is
\* overwritten and nothing else of the row or of its responses is touched
update(pollId, visibility) ==
  IF polls[pollId].exists
    THEN [result |-> "OK", polls |-> [polls EXCEPT ![pollId].visibility = visibility]]
    ELSE [result |-> "NOT_FOUND", polls |-> polls]

getUserVoteForPoll(pollId, userId) ==
  {votes[k] : k \in {k \in VoteKeys : k[1] = pollId /\ k[2] = userId /\ votes[k].exists}}

MaxOf(S) == CHOOSE x \in S : \A y \in S : y <= x

vote(pollId, voterId, optionId) ==
  IF ~polls[pollId].exists THEN [result |-> "NOT_FOUND", votes |-> votes]
  ELSE IF polls[pollId].isContinuous THEN [result |-> "VALIDATION_ERROR", votes |-> votes]
  ELSE IF votes[<<pollId, voterId, optionId>>].exists THEN [result |-> "OK", votes |-> votes]
  ELSE
    LET existingVotes == getUserVoteForPoll(pollId, voterId)
        flipFlopCount == IF existingVotes # {}
                           THEN MaxOf({v.flipFlopCount : v \in existingVotes}) + 1
                           ELSE 0
    IN [result |-> "OK",
        votes |-> [votes EXCEPT ![<<pollId, voterId, optionId>>] =
                     [exists |-> TRUE, pollId |-> pollId, voterId |-> voterId,
                      optionId |-> optionId, isHidden |-> FALSE,
                      isSharedPublicly |-> FALSE, publicComment |-> NoComment,
                      flipFlopCount |-> flipFlopCount]]]

\* prisma.vote.delete by the composite key: a missing row is P2025, NotFoundError
removeVote(pollId, voterId, optionId) ==
  IF votes[<<pollId, voterId, optionId>>].exists
    THEN [result |-> "OK", votes |-> [votes EXCEPT ![<<pollId, voterId, optionId>>] = NoVote]]
    ELSE [result |-> "NOT_FOUND", votes |-> votes]

getUserSliderResponse(pollId, userId) == sliderResponses[<<pollId, userId>>]

\* a plausible slip: the update keeps the larger of the stored and the new count
upsertSliderResponse_keepsLargerCount(pollId, userId, value, flipFlopCount) ==
  LET row == sliderResponses[<<pollId, userId>>] IN
  [sliderResponses EXCEPT ![<<pollId, userId>>] =
     IF row.exists
       THEN [row EXCEPT !.value = value,
                        !.flipFlopCount = IF @ > flipFlopCount THEN @ ELSE flipFlopCount]
       ELSE [exists |-> TRUE, pollId |-> pollId, userId |-> userId, value |-> value,
             isHidden |-> FALSE, isSharedPublicly |-> FALSE,
             publicComment |-> NoComment, flipFlopCount |-> flipFlopCount]]

\* the upsert that ends submitSliderResponse: an existing row keeps its flags
\* and takes the value and the count the caller computed; else a row is created
upsertSliderResponse(pollId, userId, value, flipFlopCount) ==
  LET row == sliderResponses[<<pollId, userId>>] IN
  [sliderResponses EXCEPT ![<<pollId, userId>>] =
     IF row.exists
       THEN [row EXCEPT !.value = value, !.flipFlopCount = flipFlopCount]
       ELSE [exists |-> TRUE, pollId |-> pollId, userId |-> userId, value |-> value,
             isHidden |-> FALSE, isSharedPublicly |-> FALSE,
             publicComment |-> NoComment, flipFlopCount |-> flipFlopCount]]

\* a plausible slip: a resubmission of the stored value is not counted
readForSubmit_countsChangedValuesOnly(pollId, userId, value) ==
  IF ~polls[pollId].exists THEN [result |-> "NOT_FOUND", flipFlopCount |-> 0]
  ELSE IF ~polls[pollId].isContinuous THEN [result |-> "VALIDATION_ERROR", flipFlopCount |-> 0]
  ELSE LET existingResponse == sliderResponses[<<pollId, userId>>] IN
       [result |-> "OK",
        flipFlopCount |-> IF ~existingResponse.exists THEN 0
                          ELSE IF existingResponse.value = value
                            THEN existingResponse.flipFlopCount
                          ELSE existingResponse.flipFlopCount + 1]

\* what submitSliderResponse decides before its write: the failure, or the count
\* computed from the row it read
readForSubmit(pollId, userId, value) ==
  IF ~polls[pollId].exists THEN [result |-> "NOT_FOUND", flipFlopCount |-> 0]
  ELSE IF ~polls[pollId].isContinuous THEN [result |-> "VALIDATION_ERROR", flipFlopCount |-> 0]
  ELSE LET existingResponse == getUserSliderResponse(pollId, userId) IN
       [result |-> "OK",
        flipFlopCount |-> IF existingResponse.exists
                            THEN existingResponse.flipFlopCount + 1
                            ELSE 0]

\* submitSliderResponse run alone, from its read to its upsert
submitSliderResponse(pollId, userId, value) ==
  LET r == readForSubmit(pollId, userId, value) IN
  IF r.result # "OK"
    THEN [result |-> r.result, sliderResponses |-> sliderResponses]
    ELSE [result |-> "OK",
          sliderResponses |-> upsertSliderResponse(pollId, userId, value, r.flipFlopCount)]

\* data of a visibility update: which of the optional fields are present
VisibilityData == [setHidden : BOOLEAN, isHidden : BOOLEAN,
                   setShared : BOOLEAN, isSharedPublicly : BOOLEAN,
                   setComment : BOOLEAN, publicComment : Comments]

applyVisibilityData(row, data) ==
  [row EXCEPT !.isHidden = IF data.setHidden THEN data.isHidden ELSE @,
              !.isSharedPublicly = IF data.setShared THEN data.isSharedPublicly ELSE @,
              !.publicComment = IF data.setComment THEN data.publicComment ELSE @]

\* a plausible slip: the ownership check is missing
updateVoteVisibility_noAuthorCheck(voteKey, voterId, data) ==
  LET voteRow == votes[voteKey] IN
  IF ~voteRow.exists THEN [result |-> "NOT_FOUND", votes |-> votes]
  ELSE IF data.setShared /\ data.isSharedPublicly
          /\ polls[voteRow.pollId].visibility # "PUBLIC"
    THEN [result |-> "VALIDATION_ERROR", votes |-> votes]
  ELSE [result |-> "OK", votes |-> [votes EXCEPT ![voteKey] = applyVisibilityData(voteRow, data)]]

updateVoteVisibility(voteKey, voterId, data) ==
  LET voteRow == votes[voteKey] IN
  IF ~voteRow.exists THEN [result |-> "NOT_FOUND", votes |-> votes]
  ELSE IF voteRow.voterId # voterId THEN [result |-> "VALIDATION_ERROR", votes |-> votes]
  ELSE IF data.setShared /\ data.isSharedPublicly
          /\ polls[voteRow.pollId].visibility # "PUBLIC"
    THEN [result |-> "VALIDATION_ERROR", votes |-> votes]
  ELSE [result |-> "OK", votes |-> [votes EXCEPT ![voteKey] = applyVisibilityData(voteRow, data)]]

updateSliderResponseVisibility(responseKey, userId, data) ==
  LET response == sliderResponses[responseKey] IN
  IF ~response.exists
    THEN [result |-> "NOT_FOUND", sliderResponses |-> sliderResponses]
  ELSE IF response.userId # userId
    THEN [result |-> "VALIDATION_ERROR", sliderResponses |-> sliderResponses]
  ELSE IF data.setShared /\ data.isSharedPublicly
          /\ polls[response.pollId].visibility # "PUBLIC"
    THEN [result |-> "VALIDATION_ERROR", sliderResponses |-> sliderResponses]
  ELSE [result |-> "OK",
        sliderResponses |-> [sliderResponses EXCEPT ![responseKey] =
                               applyVisibilityData(response, data)]]

\* ------------------------------------------------------- observed decisions
NoSim == [op |-> "none", viewer |-> "none", targetType |-> "none", pollId |-> "none",
          userId |-> "none", responseType |-> "none", isHidden |-> FALSE,
          token |-> NoToken, result |-> "none", allowed |-> FALSE, reason |-> "none",
          enforced |-> FALSE, service |-> FALSE, route |-> FALSE,
          found |-> FALSE, denied |-> FALSE, thrown |-> "none"]

\* ------------------------------------------------------- requests in flight
NumProcs == 2
Procs == 1..NumProcs
\* the largest flipFlopCount a started submission may compute
MaxFlipFlop == 3
\* the most response rows (votes and slider responses) created for the
\* visibility decisions
MaxResponses == 1
SliderValues == {5, 7}

\* a request in flight: the call and its arguments, where it stands, what its
\* lookups returned so far, how it ended; for a read of the two Follow edges
\* also what the store held while the call ran (ever...)
IdleProc == [pc |-> "idle", pollId |-> "none", userId |-> "none", value |-> 0,
             flipFlopCount |-> 0,
             op |-> "none", a |-> "none", b |-> "none", result |-> "none",
             preEdge |-> FALSE, didOwn |-> FALSE, didBack |-> FALSE,
             has1 |-> FALSE, val1 |-> FALSE, has2 |-> FALSE, val2 |-> FALSE,
             areMutuals |-> FALSE,
             ever1 |-> FALSE, ever2 |-> FALSE, everBoth |-> FALSE, everNotBoth |-> FALSE]

\* ------------------------------------------------------------------ actions
Init ==
  /\ follows = {}
  /\ blocks = {}
  /\ mutes = {}
  /\ isPrivate = [u \in Users |-> FALSE]
  /\ followRequests = [p \in Pairs |-> NoRequest]
  /\ polls = [p \in PollIds |-> NoPoll]
  /\ votes = [k \in VoteKeys |-> NoVote]
  /\ sliderResponses = [k \in SliderKeys |-> NoSliderResponse]
  /\ procs = [p \in Procs |-> IdleProc]
  /\ last = NoLast
  /\ sim = NoSim
  /\ userRows = {}

Follow(a, b) ==
  LET r == follow(a, b) IN
  /\ follows' = r.follows
  /\ last' = Call("follow", a, b, r.result)
  /\ UNCHANGED <<blocks, mutes, isPrivate, followRequests, contentVars, procs, userRows>>
  /\ sim' = NoSim

Unfollow(a, b) ==
  LET r == unfollow(a, b) IN
  /\ follows' = r.follows
  /\ last' = Call("unfollow", a, b, r.result)
  /\ UNCHANGED <<blocks, mutes, isPrivate, followRequests, contentVars, procs, userRows>>
  /\ sim' = NoSim

Block(a, b) ==
  LET r == block(a, b) IN
  /\ follows' = r.follows
  /\ blocks' = r.blocks
  /\ last' = Call("block", a, b, r.result)
  /\ UNCHANGED <<mutes, isPrivate, followRequests, contentVars, procs, userRows>>
  /\ sim' = NoSim

Unblock(a, b) ==
  LET r == unblock(a, b) IN
  /\ blocks' = r.blocks
  /\ last' = Call("unblock", a, b, r.result)
  /\ UNCHANGED <<follows, mutes, isPrivate, followRequests, contentVars, procs, userRows>>
  /\ sim' = NoSim

Mute(a, b) ==
  LET r == mute(a, b) IN
  /\ mutes' = r.mutes
  /\ last' = Call("mute", a, b, r.result)
  /\ UNCHANGED <<follows, blocks, isPrivate, followRequests, contentVars, procs, userRows>>
  /\ sim' = NoSim

Unmute(a, b) ==
  LET r == unmute(a, b) IN
  /\ mutes' = r.mutes
  /\ last' = Call("unmute", a, b, r.result)
  /\ UNCHANGED <<follows, blocks, isPrivate, followRequests, contentVars, procs, userRows>>
  /\ sim' = NoSim

\* PUT /me with isPrivate in the body
UpdateProfile(u, private) ==
  /\ isPrivate' = [isPrivate EXCEPT ![u] = private]
  /\ last' = Call("updateProfile", u, u, "OK")
  /\ UNCHANGED <<follows, blocks, mutes, followRequests, contentVars, procs, userRows>>
  /\ sim' = NoSim

CreateFollowRequest(a, b) ==
  LET r == createFollowRequest(a, b) IN
  /\ followRequests' = r.followRequests
  /\ last' = Call("createFollowRequest", a, b, r.result)
  /\ UNCHANGED <<follows, blocks, mutes, isPrivate, contentVars, procs, userRows>>
  /\ sim' = NoSim

AcceptFollowRequest(a, b) ==
  LET r == acceptFollowRequest(a, b) IN
  /\ follows' = r.follows
  /\ followRequests' = r.followRequests
  /\ last' = Call("acceptFollowRequest", a, b, r.result)
  /\ UNCHANGED <<blocks, mutes, isPrivate, contentVars, procs, userRows>>
  /\ sim' = NoSim

RejectFollowRequest(a, b) ==
  LET r == rejectFollowRequest(a, b) IN
  /\ followRequests' = r.followRequests
  /\ last' = Call("rejectFollowRequest", a, b, r.result)
  /\ UNCHANGED <<follows, blocks, mutes, isPrivate, contentVars, procs, userRows>>
  /\ sim' = NoSim

socialVars == <<follows, blocks, mutes, isPrivate, followRequests>>

\* create with valid data: a continuous poll, or a discrete SINGLE-selection one
CreatePoll(pollId, ownerId, visibility, isContinuous) ==
  /\ ~polls[pollId].exists
  /\ polls' = [polls EXCEPT ![pollId] =
                 create(pollId, ownerId, visibility, isContinuous,
                        IF isContinuous THEN NoSelection ELSE "SINGLE", NoMax)]
  /\ last' = NoLast
  /\ sim' = NoSim
  /\ UNCHANGED <<socialVars, votes, sliderResponses, procs, userRows>>

\* create of a poll with any selection fields: the validations run first
CreateSelectionPoll(pollId, ownerId, visibility, isContinuous, selectionType, maxSelections) ==
  LET thrown == \/ validateDiscretePollData(isContinuous, selectionType, maxSelections)
                \/ validateContinuousPollData(isContinuous, selectionType, maxSelections)
  IN
  /\ ~polls[pollId].exists
  /\ polls' = IF thrown THEN polls
              ELSE [polls EXCEPT ![pollId] =
                      create(pollId, ownerId, visibility, isContinuous,
                             selectionType, maxSelections)]
  /\ last' = [NoLast EXCEPT !.op = "create", !.a = ownerId, !.pollId = pollId,
                            !.result = IF thrown THEN "VALIDATION_ERROR" ELSE "OK"]
  /\ sim' = NoSim
  /\ UNCHANGED <<socialVars, votes, sliderResponses, procs, userRows>>

\* the call is observed with the count of the vote the same voter removed from
\* the poll in the call just before, if that is what the previous call was
Vote(pollId, voterId, optionId) ==
  LET r == vote(pollId, voterId, optionId)
      key == <<pollId, voterId, optionId>>
      afterRemove == /\ last.op = "removeVote" /\ last.result = "OK"
                     /\ last.a = voterId /\ last.pollId = pollId
  IN
  /\ votes' = r.votes
  /\ last' = [ResponseCall("vote", voterId, pollId, optionId, 0, r.result,
                            votes[key], r.votes[key])
                EXCEPT !.afterRemove = afterRemove,
                       !.removedCount = IF afterRemove THEN last.preRow.flipFlopCount ELSE 0]
  /\ sim' = NoSim
  /\ UNCHANGED <<socialVars, polls, sliderResponses, procs, userRows>>

SubmitSliderResponse(pollId, userId, value) ==
  LET r == submitSliderResponse(pollId, userId, value) IN
  /\ sliderResponses[<<pollId, userId>>].flipFlopCount < MaxFlipFlop
  /\ sliderResponses' = r.sliderResponses
  /\ last' = [ResponseCall("submitSliderResponse", userId, pollId, "none", value, r.result,
                            sliderResponses[<<pollId, userId>>],
                            r.sliderResponses[<<pollId, userId>>])
                EXCEPT !.preValue = sliderResponses[<<pollId, userId>>].value]
  /\ sim' = NoSim
  /\ UNCHANGED <<socialVars, polls, votes, procs, userRows>>

RemoveVote(pollId, voterId, optionId) ==
  LET r == removeVote(pollId, voterId, optionId)
      key == <<pollId, voterId, optionId>> IN
  /\ votes' = r.votes
  /\ last' = ResponseCall("removeVote", voterId, pollId, optionId, 0, r.result,
                          votes[key], r.votes[key])
  /\ sim' = NoSim
  /\ UNCHANGED <<socialVars, polls, sliderResponses, procs, userRows>>

UpdatePoll(pollId, visibility) ==
  LET r == update(pollId, visibility) IN
  /\ polls' = r.polls
  /\ last' = [NoLast EXCEPT !.op = "update", !.pollId = pollId, !.result = r.result]
  /\ sim' = NoSim
  /\ UNCHANGED <<socialVars, votes, sliderResponses, procs, userRows>>

\* observed with the requester (a), the row's author (b) and the row's flags
\* before and after
UpdateVoteVisibility(voteKey, voterId, data) ==
  LET r == updateVoteVisibility(voteKey, voterId, data) IN
  /\ votes' = r.votes
  /\ last' = [ResponseCall("updateVoteVisibility", voterId, votes[voteKey].pollId,
                            votes[voteKey].optionId, 0, r.result,
                            votes[voteKey], r.votes[voteKey])
                EXCEPT !.b = votes[voteKey].voterId]
  /\ sim' = NoSim
  /\ UNCHANGED <<socialVars, polls, sliderResponses, procs, userRows>>

UpdateSliderResponseVisibility(responseKey, userId, data) ==
  LET r == updateSliderResponseVisibility(responseKey, userId, data) IN
  /\ sliderResponses' = r.sliderResponses
  /\ last' = [ResponseCall("updateSliderResponseVisibility", userId,
                            sliderResponses[responseKey].pollId, "none", 0, r.result,
                            sliderResponses[responseKey], r.sliderResponses[responseKey])
                EXCEPT !.b = sliderResponses[responseKey].userId]
  /\ sim' = NoSim
  /\ UNCHANGED <<socialVars, polls, votes, procs, userRows>>

\* ---- decisions: they read the store and change nothing
Decision(record) ==
  /\ sim' = record
  /\ last' = NoLast
  /\ UNCHANGED <<socialVars, contentVars, procs, userRows>>

\* PollRepository.canViewPoll as the routes call it, next to the domain rule on
\* the same rows
CanViewPoll(viewerId, pollId, token) ==
  Decision([NoSim EXCEPT
    !.op = "canViewPoll", !.viewer = viewerId, !.targetType = "poll",
    !.pollId = pollId, !.token = token,
    !.result = IF polls[pollId].exists THEN "OK" ELSE "NOT_FOUND",
    !.found = polls[pollId].exists,
    !.thrown = IF polls[pollId].exists THEN "none" ELSE "NOT_FOUND",
    !.denied = polls[pollId].exists /\ ~PollRepository_canViewPoll(pollId, viewerId, token),
    !.allowed = polls[pollId].exists /\ PollRepository_canViewPoll(pollId, viewerId, token),
    !.enforced = polls[pollId].exists /\ canViewPoll(pollContext(pollId, viewerId, token))])

\* the three ways a profile read is decided
ViewProfile(viewerId, profileId) ==
  Decision([NoSim EXCEPT
    !.op = "canViewProfile", !.viewer = viewerId, !.targetType = "profile",
    !.userId = profileId, !.result = "OK",
    !.enforced = canViewProfile(profileContext(profileId, viewerId)),
    !.allowed = canViewProfile(profileContext(profileId, viewerId)),
    !.service = getUserByHandle(profileId, viewerId),
    !.route = getUserRoute(profileId, viewerId)])

GetUserByHandle(viewerId, handle) ==
  LET r == getUserByHandleOutcome(handle, viewerId) IN
  Decision([NoSim EXCEPT
    !.op = "getUserByHandle", !.viewer = viewerId, !.targetType = "profile",
    !.userId = handle,
    !.result = IF r.thrown = "none" THEN "OK" ELSE r.thrown,
    !.found = r.found, !.denied = r.denied, !.thrown = r.thrown,
    !.allowed = r.thrown = "none"])

SimulatePoll(viewerUserId, targetId) ==
  LET r == simulatePoll(viewerUserId, targetId) IN
  Decision([NoSim EXCEPT
    !.op = "simulateVisibility", !.viewer = viewerUserId, !.targetType = "poll",
    !.pollId = targetId,
    !.result = IF polls[targetId].exists THEN "OK" ELSE "NOT_FOUND",
    !.allowed = polls[targetId].exists /\ r.allowed,
    !.reason = IF polls[targetId].exists THEN r.reason ELSE "none",
    !.enforced = polls[targetId].exists
                   /\ canViewPoll(pollContext(targetId, viewerUserId, NoToken))])

\* targetId resolves to a vote row or to a slider response row
SimulateVote(viewerUserId, voteKey) ==
  LET row == votes[voteKey]
      r == simulateResponse(viewerUserId, row, NoSliderResponse) IN
  /\ row.exists
  /\ Decision([NoSim EXCEPT
       !.op = "simulateVisibility", !.viewer = viewerUserId, !.targetType = "response",
       !.responseType = "vote", !.pollId = row.pollId, !.userId = row.voterId,
       !.isHidden = row.isHidden, !.result = "OK",
       !.allowed = r.allowed, !.reason = r.reason,
       !.enforced = canViewResponse(responseContext(row.pollId, row.voterId, row.isHidden,
                                                     viewerUserId, NoToken))])

SimulateSlider(viewerUserId, responseKey) ==
  LET row == sliderResponses[responseKey]
      r == simulateResponse(viewerUserId, NoVote, row) IN
  /\ row.exists
  /\ Decision([NoSim EXCEPT
       !.op = "simulateVisibility", !.viewer = viewerUserId, !.targetType = "response",
       !.responseType = "slider", !.pollId = row.pollId, !.userId = row.userId,
       !.isHidden = row.isHidden, !.result = "OK",
       !.allowed = r.allowed, !.reason = r.reason,
       !.enforced = canViewResponse(responseContext(row.pollId, row.userId, row.isHidden,
                                                     viewerUserId, NoToken))])

\* a targetId that is no vote and no slider response
SimulateMissingResponse(viewerUserId) ==
  Decision([NoSim EXCEPT
    !.op = "simulateVisibility", !.viewer = viewerUserId, !.targetType = "response",
    !.result = "NOT_FOUND"])

SimulateProfile(viewerUserId, targetId) ==
  LET r == simulateProfile(viewerUserId, targetId) IN
  Decision([NoSim EXCEPT
    !.op = "simulateVisibility", !.viewer = viewerUserId, !.targetType = "profile",
    !.userId = targetId, !.result = "OK",
    !.allowed = r.allowed, !.reason = r.reason,
    !.enforced = canViewProfile(profileContext(targetId, viewerUserId))])

ResponseCount ==
  Cardinality({k \in VoteKeys : votes[k].exists})
    + Cardinality({k \in SliderKeys : sliderResponses[k].exists})

HiddenOnly == {d \in VisibilityData : /\ d.setHidden /\ ~d.setShared /\ ~d.isSharedPublicly
                                        /\ ~d.setComment /\ d.publicComment = NoComment}

\* each request body once: an absent field has no value
VisibilityInputs == {d \in VisibilityData : /\ ~d.setHidden => ~d.isHidden
                                            /\ ~d.setShared => ~d.isSharedPublicly
                                            /\ ~d.setComment => d.publicComment = NoComment}

\* the relationship mutation service, one completed call at a time
Next ==
  \/ \E a \in Users, b \in Users : Follow(a, b)
  \/ \E a \in Users, b \in Users : Unfollow(a, b)
  \/ \E a \in Users, b \in Users : Block(a, b)
  \/ \E a \in Users, b \in Users : Unblock(a, b)
  \/ \E u \in Users, private \in BOOLEAN : UpdateProfile(u, private)
  \/ \E a \in Users, b \in Users : CreateFollowRequest(a, b)
  \/ \E a \in Users, b \in Users : AcceptFollowRequest(a, b)
  \/ \E a \in Users, b \in Users : RejectFollowRequest(a, b)

Spec == Init /\ [][Next]_vars

\* ---- the decisions, one specification per kind of target

\* a poll, the edges between its owner and the viewer, and the decisions on it
NextPollVisibility ==
  \/ \E a \in Users, b \in Users : Follow(a, b)
  \/ \E a \in Users, b \in Users : Unfollow(a, b)
  \/ \E a \in Users, b \in Users : Block(a, b)
  \/ \E a \in Users, b \in Users : Unblock(a, b)
  \/ \E a \in Users, b \in Users : Mute(a, b)
  \/ \E a \in Users, b \in Users : Unmute(a, b)
  \/ \E p \in PollIds, u \in Users, v \in Visibilities, c \in BOOLEAN : CreatePoll(p, u, v, c)
  \/ \E v \in Viewers, p \in PollIds, t \in ProvidedTokens : CanViewPoll(v, p, t)
  \/ \E v \in Users, p \in PollIds : SimulatePoll(v, p)

SpecPollVisibility == Init /\ [][NextPollVisibility]_vars

\* profiles, public or private, the edges between two users, and the decisions
NextProfileVisibility ==
  \/ \E a \in Users, b \in Users : Follow(a, b)
  \/ \E a \in Users, b \in Users : Unfollow(a, b)
  \/ \E a \in Users, b \in Users : Block(a, b)
  \/ \E a \in Users, b \in Users : Unblock(a, b)
  \/ \E a \in Users, b \in Users : Mute(a, b)
  \/ \E a \in Users, b \in Users : Unmute(a, b)
  \/ \E u \in Users, private \in BOOLEAN : UpdateProfile(u, private)
  \/ \E v \in Viewers, u \in Users : ViewProfile(v, u)
  \/ \E v \in Viewers, h \in Handles : GetUserByHandle(v, h)
  \/ \E v \in Users, u \in Users : SimulateProfile(v, u)

SpecProfileVisibility == Init /\ [][NextProfileVisibility]_vars

\* a poll, its responses with their isHidden flags, and the decisions on them
NextResponseVisibility ==
  \/ \E a \in Users, b \in Users : Follow(a, b)
  \/ \E a \in Users, b \in Users : Unfollow(a, b)
  \/ \E p \in PollIds, u \in Users, v \in Visibilities, c \in BOOLEAN : CreatePoll(p, u, v, c)
  \/ \E k \in VoteKeys : ResponseCount < MaxResponses /\ Vote(k[1], k[2], k[3])
  \/ \E k \in SliderKeys : ResponseCount < MaxResponses /\ SubmitSliderResponse(k[1], k[2], 5)
  \/ \E k \in VoteKeys, u \in Users, d \in HiddenOnly : UpdateVoteVisibility(k, u, d)
  \/ \E k \in SliderKeys, u \in Users, d \in HiddenOnly : UpdateSliderResponseVisibility(k, u, d)
  \/ \E v \in Users, k \in VoteKeys : SimulateVote(v, k)
  \/ \E v \in Users, k \in SliderKeys : SimulateSlider(v, k)
  \/ \E v \in Users : SimulateMissingResponse(v)

SpecResponseVisibility == Init /\ [][NextResponseVisibility]_vars

\* ---- submitSliderResponse as the server runs it: the read of the existing
\* row and the upsert are separate store calls, and other requests run between
SubmitRead(proc, pollId, userId, value) ==
  LET r == readForSubmit(pollId, userId, value) IN
  /\ procs[proc].pc = "idle"
  /\ r.flipFlopCount <= MaxFlipFlop
  /\ procs' = [procs EXCEPT ![proc] =
                 IF r.result = "OK"
                   THEN [IdleProc EXCEPT !.pc = "upsert", !.pollId = pollId,
                                         !.userId = userId, !.value = value,
                                         !.flipFlopCount = r.flipFlopCount]
                   ELSE IdleProc]
  /\ UNCHANGED <<socialVars, contentVars, last, sim, userRows>>

SubmitUpsert(proc) ==
  LET me == procs[proc] IN
  /\ me.pc = "upsert"
  /\ sliderResponses' = upsertSliderResponse(me.pollId, me.userId, me.value, me.flipFlopCount)
  /\ procs' = [procs EXCEPT ![proc] = IdleProc]
  /\ last' = [NoLast EXCEPT !.op = "upsert", !.a = me.userId, !.pollId = me.pollId,
                             !.value = me.value, !.flipFlopCount = me.flipFlopCount,
                             !.result = "OK"]
  /\ UNCHANGED <<socialVars, polls, votes, sim, userRows>>

\* submitSliderResponse reads neither the poll's owner nor its visibility
NextSubmit ==
  \/ \E p \in PollIds, c \in BOOLEAN : CreatePoll(p, "alice", "PUBLIC", c)
  \/ \E proc \in Procs, k \in SliderKeys, v \in SliderValues : SubmitRead(proc, k[1], k[2], v)
  \/ \E proc \in Procs : SubmitUpsert(proc)

SpecSubmit == Init /\ [][NextSubmit]_vars

\* ---- votes and slider responses written one completed call at a time
NextFlipFlop ==
  \/ \E p \in PollIds, u \in Users, v \in Visibilities, c \in BOOLEAN : CreatePoll(p, u, v, c)
  \/ \E k \in VoteKeys :
       /\ \A v \in getUserVoteForPoll(k[1], k[2]) : v.flipFlopCount < MaxFlipFlop
       /\ Vote(k[1], k[2], k[3])
  \/ \E k \in VoteKeys : RemoveVote(k[1], k[2], k[3])
  \/ \E k \in SliderKeys, v \in SliderValues : SubmitSliderResponse(k[1], k[2], v)

SpecFlipFlop == Init /\ [][NextFlipFlop]_vars

\* ---- the per-response flags and the poll's visibility, one completed call
\* at a time
NextOverlay ==
  \/ \E p \in PollIds, u \in Users, v \in Visibilities, c \in BOOLEAN : CreatePoll(p, u, v, c)
  \/ \E p \in PollIds, v \in Visibilities : UpdatePoll(p, v)
  \/ \E k \in VoteKeys : ResponseCount < MaxResponses /\ Vote(k[1], k[2], k[3])
  \/ \E k \in SliderKeys : ResponseCount < MaxResponses /\ SubmitSliderResponse(k[1], k[2], 5)
  \/ \E k \in VoteKeys, u \in Users, d \in VisibilityInputs : UpdateVoteVisibility(k, u, d)
  \/ \E k \in SliderKeys, u \in Users, d \in VisibilityInputs :
       UpdateSliderResponseVisibility(k, u, d)

SpecOverlay == Init /\ [][NextOverlay]_vars

\* ---- follow and block as the server runs them: every store call is a step
\* of its own, and the steps of other requests run between them

\* follow: the validation, then the lookup of the Follow row
FollowBegin(proc, a, b) ==
  LET me == [IdleProc EXCEPT !.op = "follow", !.a = a, !.b = b,
                             !.preEdge = isFollowing(a, b)] IN
  /\ procs[proc].pc = "idle"
  /\ procs' = [procs EXCEPT ![proc] =
                 IF validateUserIds(a, b)
                   THEN [me EXCEPT !.pc = "done", !.result = "VALIDATION_ERROR"]
                 ELSE IF isFollowing(a, b)
                   THEN [me EXCEPT !.pc = "done", !.result = "CONFLICT"]
                 ELSE [me EXCEPT !.pc = "isBlocked"]]
  /\ UNCHANGED <<socialVars, contentVars, last, sim, userRows>>

\* follow: the lookup of the Block row of the followee against the follower
FollowIsBlocked(proc) ==
  LET me == procs[proc] IN
  /\ me.op = "follow"
  /\ me.pc = "isBlocked"
  /\ procs' = [procs EXCEPT ![proc] =
                 IF isBlocked(me.b, me.a)
                   THEN [me EXCEPT !.pc = "done", !.result = "CONFLICT"]
                   ELSE [me EXCEPT !.pc = "create"]]
  /\ UNCHANGED <<socialVars, contentVars, last, sim, userRows>>

\* follow: the create of the Follow row
FollowCreate(proc) ==
  LET me == procs[proc]
      r == followCreate(me.a, me.b) IN
  /\ me.op = "follow"
  /\ me.pc = "create"
  /\ follows' = r.follows
  /\ procs' = [procs EXCEPT ![proc] = [me EXCEPT !.pc = "done", !.result = r.result]]
  /\ UNCHANGED <<blocks, mutes, isPrivate, followRequests, contentVars, last, sim, userRows>>

\* block: the validation; the two unfollow calls are then issued together
BlockBegin(proc, a, b) ==
  LET me == [IdleProc EXCEPT !.op = "block", !.a = a, !.b = b] IN
  /\ procs[proc].pc = "idle"
  /\ procs' = [procs EXCEPT ![proc] =
                 IF validateUserIds(a, b)
                   THEN [me EXCEPT !.pc = "done", !.result = "VALIDATION_ERROR"]
                   ELSE [me EXCEPT !.pc = "cascade"]]
  /\ UNCHANGED <<socialVars, contentVars, last, sim, userRows>>

\* block: unfollow(blockerId, blockedId), its failure swallowed
BlockUnfollowOwn(proc) ==
  LET me == procs[proc] IN
  /\ me.op = "block"
  /\ me.pc = "cascade"
  /\ ~me.didOwn
  /\ follows' = unfollow(me.a, me.b).follows
  /\ procs' = [procs EXCEPT ![proc] = [me EXCEPT !.didOwn = TRUE]]
  /\ UNCHANGED <<blocks, mutes, isPrivate, followRequests, contentVars, last, sim, userRows>>

\* block: unfollow(blockedId, blockerId), its failure swallowed
BlockUnfollowBack(proc) ==
  LET me == procs[proc] IN
  /\ me.op = "block"
  /\ me.pc = "cascade"
  /\ ~me.didBack
  /\ follows' = unfollow(me.b, me.a).follows
  /\ procs' = [procs EXCEPT ![proc] = [me EXCEPT !.didBack = TRUE]]
  /\ UNCHANGED <<blocks, mutes, isPrivate, followRequests, contentVars, last, sim, userRows>>

\* block: once both unfollow calls have settled, the upsert of the Block row
BlockUpsert(proc) ==
  LET me == procs[proc] IN
  /\ me.op = "block"
  /\ me.pc = "cascade"
  /\ me.didOwn
  /\ me.didBack
  /\ blocks' = blockUpsert(me.a, me.b)
  /\ procs' = [procs EXCEPT ![proc] = [me EXCEPT !.pc = "done", !.result = "OK"]]
  /\ UNCHANGED <<follows, mutes, isPrivate, followRequests, contentVars, last, sim, userRows>>

\* the response has been sent; the request slot is free again
Return(proc) ==
  /\ procs[proc].pc = "done"
  /\ procs' = [procs EXCEPT ![proc] = IdleProc]
  /\ UNCHANGED <<socialVars, contentVars, last, sim, userRows>>

\* every request that was started has returned; the results are dropped and
\* the request slots are free again
ReturnAll ==
  /\ \A p \in Procs : procs[p].pc \in {"idle", "done"}
  /\ \E p \in Procs : procs[p].pc = "done"
  /\ procs' = [p \in Procs |-> IdleProc]
  /\ UNCHANGED <<socialVars, contentVars, last, sim, userRows>>

NextFollowBlock ==
  \/ \E proc \in Procs, a \in Users, b \in Users : FollowBegin(proc, a, b)
  \/ \E proc \in Procs : FollowIsBlocked(proc)
  \/ \E proc \in Procs : FollowCreate(proc)
  \/ \E proc \in Procs, a \in Users, b \in Users : BlockBegin(proc, a, b)
  \/ \E proc \in Procs : BlockUnfollowOwn(proc)
  \/ \E proc \in Procs : BlockUnfollowBack(proc)
  \/ \E proc \in Procs : BlockUpsert(proc)
  \/ \E proc \in Procs : Return(proc)

SpecFollowBlock == Init /\ [][NextFollowBlock]_vars

\* follow requests only, racing each other; their results stay to be compared
\* until all of them have returned
NextFollowRace ==
  \/ \E proc \in Procs, a \in Users, b \in Users : FollowBegin(proc, a, b)
  \/ \E proc \in Procs : FollowIsBlocked(proc)
  \/ \E proc \in Procs : FollowCreate(proc)
  \/ ReturnAll

SpecFollowRace == Init /\ [][NextFollowRace]_vars

\* ---- getMutualFollows / getRelationshipStatus as the server runs them: the
\* lookups of the two Follow rows are store calls of their own, issued
\* together and answered in either order, and mutations run between them.
\* getRelationshipStatus derives areMutuals from the same two lookups; its
\* four other lookups (Block, Mute) do not enter areMutuals.

\* what the store holds of the two edges a running read asked for, added to
\* what it held earlier during the call
Track(pr, fs) ==
  IF pr.pc # "reading" THEN pr
  ELSE [pr EXCEPT
          !.ever1 = @ \/ <<pr.a, pr.b>> \in fs,
          !.ever2 = @ \/ <<pr.b, pr.a>> \in fs,
          !.everBoth = @ \/ (<<pr.a, pr.b>> \in fs /\ <<pr.b, pr.a>> \in fs),
          !.everNotBoth = @ \/ ~(<<pr.a, pr.b>> \in fs /\ <<pr.b, pr.a>> \in fs)]

ReadBegin(proc, op, userId1, userId2) ==
  /\ procs[proc].pc = "idle"
  /\ procs' = [procs EXCEPT ![proc] =
                 Track([IdleProc EXCEPT !.op = op, !.a = userId1, !.b = userId2,
                                        !.pc = "reading"], follows)]
  /\ UNCHANGED <<socialVars, contentVars, last, sim, userRows>>

\* the answer of one lookup arrives; with the second answer the call returns
ReadEdge(proc, first) ==
  LET me == procs[proc]
      got == IF first
               THEN [me EXCEPT !.has1 = TRUE, !.val1 = isFollowing(me.a, me.b)]
               ELSE [me EXCEPT !.has2 = TRUE, !.val2 = isFollowing(me.b, me.a)]
  IN
  /\ me.pc = "reading"
  /\ IF first THEN ~me.has1 ELSE ~me.has2
  /\ procs' = [procs EXCEPT ![proc] =
                 IF got.has1 /\ got.has2
                   THEN [got EXCEPT !.pc = "done", !.result = "OK",
                                    !.areMutuals = mutualFollowsOf(got.val1, got.val2).areMutuals]
                   ELSE got]
  /\ UNCHANGED <<socialVars, contentVars, last, sim, userRows>>

\* completed mutations of other requests while reads are in flight
FollowWhileReading(a, b) ==
  LET r == follow(a, b) IN
  /\ follows' = r.follows
  /\ procs' = [p \in Procs |-> Track(procs[p], r.follows)]
  /\ UNCHANGED <<blocks, mutes, isPrivate, followRequests, contentVars, last, sim, userRows>>

UnfollowWhileReading(a, b) ==
  LET r == unfollow(a, b) IN
  /\ follows' = r.follows
  /\ procs' = [p \in Procs |-> Track(procs[p], r.follows)]
  /\ UNCHANGED <<blocks, mutes, isPrivate, followRequests, contentVars, last, sim, userRows>>

BlockWhileReading(a, b) ==
  LET r == block(a, b) IN
  /\ follows' = r.follows
  /\ blocks' = r.blocks
  /\ procs' = [p \in Procs |-> Track(procs[p], r.follows)]
  /\ UNCHANGED <<mutes, isPrivate, followRequests, contentVars, last, sim, userRows>>

UnblockWhileReading(a, b) ==
  LET r == unblock(a, b) IN
  /\ blocks' = r.blocks
  /\ UNCHANGED <<follows, mutes, isPrivate, followRequests, contentVars, procs, userRows, last, sim>>

ReadOps == {"getMutualFollows", "getRelationshipStatus"}

\* reads write nothing, so one read at a time next to the mutations shows
\* all that any number of reads can return
Reader == CHOOSE p \in Procs : \A q \in Procs : p <= q

NextMutualRead ==
  \/ \E op \in ReadOps, p \in Pairs : ReadBegin(Reader, op, p[1], p[2])
  \/ \E first \in BOOLEAN : ReadEdge(Reader, first)
  \/ Return(Reader)
  \/ \E p \in Pairs : FollowWhileReading(p[1], p[2])
  \/ \E p \in Pairs : UnfollowWhileReading(p[1], p[2])
  \/ \E p \in Pairs : BlockWhileReading(p[1], p[2])
  \/ \E p \in Pairs : UnblockWhileReading(p[1], p[2])

SpecMutualRead == Init /\ [][NextMutualRead]_vars

\* ---- every access decision the store gives rise to, for every viewer and
\* every target: the poll decisions (repository and domain rule, with every
\* token), the response decisions, the profile decisions, and the simulator's
PollDecisions ==
  [p \in {q \in PollIds : polls[q].exists}, v \in Viewers, t \in ProvidedTokens |->
     <<PollRepository_canViewPoll(p, v, t), canViewPoll(pollContext(p, v, t))>>]

ResponseDecisions ==
  << [k \in {j \in VoteKeys : votes[j].exists}, v \in Viewers |->
        canViewResponse(responseContext(votes[k].pollId, votes[k].voterId,
                                        votes[k].isHidden, v, NoToken))],
     [k \in {j \in SliderKeys : sliderResponses[j].exists}, v \in Viewers |->
        canViewResponse(responseContext(sliderResponses[k].pollId, sliderResponses[k].userId,
                                        sliderResponses[k].isHidden, v, NoToken))] >>

ProfileDecisions ==
  [u \in Users, v \in Viewers |->
     <<canViewProfile(profileContext(u, v)), getUserByHandle(u, v), getUserRoute(u, v)>>]

SimulatorDecisions ==
  << [p \in {q \in PollIds : polls[q].exists}, v \in Users |-> simulatePoll(v, p)],
     [k \in {j \in VoteKeys : votes[j].exists}, v \in Users |->
        simulateResponse(v, votes[k], NoSliderResponse)],
     [k \in {j \in SliderKeys : sliderResponses[j].exists}, v \in Users |->
        simulateResponse(v, NoVote, sliderResponses[k])],
     [u \in Users, v \in Users |-> simulateProfile(v, u)] >>

\* polls, responses, profiles and all four kinds of edges
NextMute ==
  \/ \E a \in Users, b \in Users : Follow(a, b)
  \/ \E a \in Users, b \in Users : Block(a, b)
  \/ \E a \in Users, b \in Users : Mute(a, b)
  \/ \E a \in Users, b \in Users : Unmute(a, b)
  \/ \E u \in Users, private \in BOOLEAN : UpdateProfile(u, private)
  \/ \E p \in PollIds, v \in Visibilities, c \in BOOLEAN : CreatePoll(p, "alice", v, c)
  \/ \E k \in VoteKeys : ResponseCount < MaxResponses /\ Vote(k[1], k[2], "o1")
  \/ \E k \in SliderKeys : ResponseCount < MaxResponses /\ SubmitSliderResponse(k[1], k[2], 5)
  \/ \E k \in VoteKeys, d \in HiddenOnly : UpdateVoteVisibility(k, k[2], d)
  \/ \E k \in SliderKeys, d \in HiddenOnly : UpdateSliderResponseVisibility(k, k[2], d)

SpecMute == Init /\ [][NextMute]_vars

\* ---- the six edge calls of SocialRepository, one completed call per step
NextEdges ==
  \/ \E a \in Users, b \in Users : Follow(a, b)
  \/ \E a \in Users, b \in Users : Unfollow(a, b)
  \/ \E a \in Users, b \in Users : Block(a, b)
  \/ \E a \in Users, b \in Users : Unblock(a, b)
  \/ \E a \in Users, b \in Users : Mute(a, b)
  \/ \E a \in Users, b \in Users : Unmute(a, b)

SpecEdges == Init /\ [][NextEdges]_vars

\* ---- responses to polls of every visibility while follows come and go
NextRespond ==
  \/ \E a \in Users, b \in Users : Follow(a, b)
  \/ \E a \in Users, b \in Users : Unfollow(a, b)
  \/ \E p \in PollIds, u \in Users, v \in Visibilities, c \in BOOLEAN : CreatePoll(p, u, v, c)
  \/ \E k \in VoteKeys : ResponseCount < MaxResponses /\ Vote(k[1], k[2], k[3])
  \/ \E k \in SliderKeys : ResponseCount < MaxResponses /\ SubmitSliderResponse(k[1], k[2], 5)

SpecRespond == Init /\ [][NextRespond]_vars

\* ---- votes on polls of either selection type
MaxSelectionsInputs == {NoMax, 1, 2, 3}

NextSelection ==
  \/ \E p \in PollIds, c \in BOOLEAN, st \in SelectionTypes \cup {NoSelection},
        ms \in MaxSelectionsInputs :
       CreateSelectionPoll(p, "alice", "PUBLIC", c, st, ms)
  \/ \E k \in VoteKeys :
       /\ \A v \in getUserVoteForPoll(k[1], k[2]) : v.flipFlopCount < MaxFlipFlop
       /\ Vote(k[1], k[2], k[3])
  \/ \E k \in VoteKeys : RemoveVote(k[1], k[2], k[3])

SpecSelection == Init /\ [][NextSelection]_vars

\* ---- just-in-time provisioning as the server runs it: the lookup by Clerk
\* id, every lookup of a candidate handle and the create are store calls of
\* their own, and the steps of other authenticated requests run between them
ClerkIds == {"clerk_1", "clerk_2"}

\* the code gives up after this many candidate handles
MaxHandleCounter == 1000

\* the handle generateHandle derives from the Clerk user: the local part of the
\* first e-mail address; the two Clerk users are sam@ at two domains
generateHandle(clerkId) == "sam"

\* UserRepository.findByClerkId: the rows with that Clerk id (none or one)
findByClerkId(clerkId) == {u \in userRows : u.clerkId = clerkId}

isHandleTaken(handle) == \E u \in userRows : u.handle = handle

\* the candidate ensureUniqueHandle tries after counter - 1 taken ones
candidateHandle(baseHandle, counter) ==
  IF counter = 1 THEN baseHandle ELSE baseHandle \o ToString(counter - 1)

\* UserRepository.create: prisma.user.create under the unique constraints on
\* clerkId and on handle; a violation is P2002, ConflictError
UserRepository_create(clerkId, handle) ==
  IF findByClerkId(clerkId) # {} \/ isHandleTaken(handle)
    THEN [result |-> "CONFLICT", userRows |-> userRows]
    ELSE [result |-> "OK",
          userRows |-> userRows \cup {[clerkId |-> clerkId, handle |-> handle]}]

\* getOrCreateUser: the lookup by Clerk id; an existing user is returned
GetOrCreateUserBegin(proc, clerkId) ==
  LET me == [IdleProc EXCEPT !.op = "getOrCreateUser", !.a = clerkId,
                             !.preEdge = findByClerkId(clerkId) # {}] IN
  /\ procs[proc].pc = "idle"
  /\ procs' = [procs EXCEPT ![proc] =
                 IF findByClerkId(clerkId) # {}
                   THEN [me EXCEPT !.pc = "done", !.result = "OK",
                                   !.b = (CHOOSE u \in findByClerkId(clerkId) : TRUE).handle]
                   ELSE [me EXCEPT !.pc = "ensureUniqueHandle", !.value = 1]]
  /\ UNCHANGED <<socialVars, contentVars, last, sim, userRows>>

\* getOrCreateUser: one turn of the loop in ensureUniqueHandle, one lookup of
\* the current candidate
EnsureUniqueHandle(proc) ==
  LET me == procs[proc]
      handle == candidateHandle(generateHandle(me.a), me.value) IN
  /\ me.pc = "ensureUniqueHandle"
  /\ procs' = [procs EXCEPT ![proc] =
                 IF ~isHandleTaken(handle)
                   THEN [me EXCEPT !.pc = "create", !.b = handle]
                 ELSE IF me.value + 1 > MaxHandleCounter
                   THEN [me EXCEPT !.pc = "done", !.result = "UNAUTHORIZED"]
                 ELSE [me EXCEPT !.value = me.value + 1]]
  /\ UNCHANGED <<socialVars, contentVars, last, sim, userRows>>

\* getOrCreateUser: the create; whatever it throws is caught and rethrown as
\* AuthenticationError('UNAUTHORIZED', 'User provisioning failed')
GetOrCreateUserCreate(proc) ==
  LET me == procs[proc]
      r == UserRepository_create(me.a, me.b) IN
  /\ me.pc = "create"
  /\ userRows' = r.userRows
  /\ procs' = [procs EXCEPT ![proc] =
                 [me EXCEPT !.pc = "done",
                            !.result = IF r.result = "OK" THEN "OK" ELSE "UNAUTHORIZED"]]
  /\ UNCHANGED <<socialVars, contentVars, last, sim>>

NextProvision ==
  \/ \E proc \in Procs, clerkId \in ClerkIds : GetOrCreateUserBegin(proc, clerkId)
  \/ \E proc \in Procs : EnsureUniqueHandle(proc)
  \/ \E proc \in Procs : GetOrCreateUserCreate(proc)
  \/ ReturnAll

SpecProvision == Init /\ [][NextProvision]_vars

\* ------------------------------------------------------------------ claims

\* C7: block(a,b) with a # b always succeeds, also when Block(a,b) already
\* exists or when no Follow edge exists; afterwards Block(a,b) exists and
\* neither Follow(a,b) nor Follow(b,a) does, even if both existed before.
C7_BlockSucceedsAndRemovesFollows ==
  (last.op = "block" /\ last.a # last.b) =>
    /\ last.result = "OK"
    /\ isBlocked(last.a, last.b)
    /\ ~isFollowing(last.a, last.b)
    /\ ~isFollowing(last.b, last.a)

\* a block on an already blocked pair whose users followed each other has completed
C7_Witness ==
  /\ last.op = "block"
  /\ last.a # last.b
  /\ last.preBlock
  /\ last.preFollow
  /\ last.preFollowBack

\* C8: a successful follow(a,b) creates Follow(a,b) directly only when b is not
\* private; when b.isPrivate it creates a PENDING FollowRequest(a,b) and no
\* Follow edge; in both cases Follow(b,a) is left unchanged.
C8_FollowOfPrivateUserCreatesRequest ==
  (last.op = "follow" /\ last.result = "OK") =>
    /\ last.prePrivate =>
         /\ getFollowRequest(last.a, last.b) = "PENDING"
         /\ ~isFollowing(last.a, last.b)
    /\ ~last.prePrivate => isFollowing(last.a, last.b)
    /\ isFollowing(last.b, last.a) <=> last.preFollowBack

\* C9: a FollowRequest can be accepted or rejected only while it is PENDING;
\* accept creates Follow(a,b) and sets ACCEPTED, reject sets REJECTED and
\* creates no Follow; an ACCEPTED or REJECTED request never changes again.
C9_AcceptRejectOnlyWhilePending ==
  /\ [] ((last.op \in {"acceptFollowRequest", "rejectFollowRequest"} /\ last.result = "OK")
           => last.preRequest = "PENDING")
  /\ [] ((last.op = "acceptFollowRequest" /\ last.result = "OK")
           => /\ isFollowing(last.a, last.b)
              /\ getFollowRequest(last.a, last.b) = "ACCEPTED")
  /\ [] ((last.op = "rejectFollowRequest" /\ last.result = "OK")
           => /\ isFollowing(last.a, last.b) <=> last.preFollow
              /\ getFollowRequest(last.a, last.b) = "REJECTED")
  /\ [][\A p \in Pairs :
          followRequests[p] \in {"ACCEPTED", "REJECTED"}
            => followRequests'[p] = followRequests[p]]_vars

\* one request accepted, the other rejected, and a further accept of the
\* rejected one has been refused
C9_Witness ==
  /\ \E p \in Pairs : followRequests[p] = "ACCEPTED" /\ p \in follows
  /\ last.op = "acceptFollowRequest"
  /\ last.preRequest = "REJECTED"
  /\ last.result = "VALIDATION_ERROR"
  /\ ~isFollowing(last.a, last.b)

\* C1: for every viewer and target, simulateVisibility returns the decision of
\* the enforcement path (canViewPoll / canViewResponse / canViewProfile)
\* evaluated on the same rows. The enforcement path yields allowed only, so
\* that is what is compared.
C1_SimulatorAgreesWithEnforcement ==
  (sim.op = "simulateVisibility" /\ sim.result = "OK") => sim.allowed = sim.enforced

\* C2: a profile is allowed to its owner; otherwise a Block in either direction
\* denies it before privacy is looked at; otherwise a private profile is
\* allowed iff viewer and owner follow each other; otherwise it is allowed.
C2_ProfileBlockBeforePrivacy ==
  (sim.op = "canViewProfile") =>
    sim.enforced =
      (IF sim.viewer = sim.userId THEN TRUE
       ELSE IF isBlocked(sim.viewer, sim.userId) \/ isBlocked(sim.userId, sim.viewer)
         THEN FALSE
       ELSE IF isPrivate[sim.userId]
         THEN isFollowing(sim.viewer, sim.userId) /\ isFollowing(sim.userId, sim.viewer)
       ELSE TRUE)

\* C3: a response whose poll the viewer cannot view is denied with
\* CANNOT_VIEW_POLL; otherwise its author is always allowed, also when it is
\* hidden; otherwise it is allowed iff it is not hidden, else RESPONSE_HIDDEN.
C3_ResponseDecision ==
  (sim.op = "simulateVisibility" /\ sim.targetType = "response" /\ sim.result = "OK") =>
    IF ~PollRepository_canViewPoll(sim.pollId, sim.viewer, NoToken)
      THEN ~sim.allowed /\ sim.reason = "CANNOT_VIEW_POLL"
    ELSE IF sim.viewer = sim.userId
      THEN sim.allowed
    ELSE /\ sim.allowed <=> ~sim.isHidden
         /\ ~sim.allowed => sim.reason = "RESPONSE_HIDDEN"

\* C4: a PRIVATE_LINK poll is viewable iff the viewer supplies a token equal to
\* the poll's privateLinkToken, whoever the viewer is; without the token the
\* decision is a denial with reason PRIVATE_LINK_REQUIRED.
C4_PrivateLinkTokenIsSoleGate ==
  (sim.targetType = "poll" /\ sim.result = "OK"
     /\ polls[sim.pollId].visibility = "PRIVATE_LINK") =>
    /\ sim.allowed <=>
         (sim.token # NoToken /\ sim.token = polls[sim.pollId].privateLinkToken)
    /\ sim.enforced = sim.allowed
    /\ sim.op = "simulateVisibility" =>
         (~sim.allowed /\ sim.reason = "PRIVATE_LINK_REQUIRED")

\* a viewer the owner has blocked opens the poll with its token
C4_Witness ==
  /\ sim.op = "canViewPoll"
  /\ sim.result = "OK"
  /\ polls[sim.pollId].visibility = "PRIVATE_LINK"
  /\ sim.viewer # polls[sim.pollId].ownerId
  /\ isBlocked(polls[sim.pollId].ownerId, sim.viewer)
  /\ sim.token = polls[sim.pollId].privateLinkToken
  /\ sim.allowed

\* C5: a FRIENDS_ONLY poll is viewable by its owner; any other viewer is allowed
\* iff authenticated and in a mutual follow with the owner; a denial carries
\* the reason NOT_MUTUALS.
C5_FriendsOnlyNeedsMutualFollow ==
  (sim.targetType = "poll" /\ sim.result = "OK"
     /\ polls[sim.pollId].visibility = "FRIENDS_ONLY") =>
    LET ownerId == polls[sim.pollId].ownerId IN
    /\ sim.allowed <=>
         \/ sim.viewer = ownerId
         \/ /\ sim.viewer # Anonymous
            /\ isFollowing(sim.viewer, ownerId)
            /\ isFollowing(ownerId, sim.viewer)
    /\ sim.enforced = sim.allowed
    /\ (sim.op = "simulateVisibility" /\ ~sim.allowed) => sim.reason = "NOT_MUTUALS"

\* a viewer who follows the owner without being followed back is denied
C5_Witness ==
  /\ sim.op = "simulateVisibility"
  /\ sim.targetType = "poll"
  /\ sim.result = "OK"
  /\ polls[sim.pollId].visibility = "FRIENDS_ONLY"
  /\ isFollowing(sim.viewer, polls[sim.pollId].ownerId)
  /\ ~isFollowing(polls[sim.pollId].ownerId, sim.viewer)
  /\ ~sim.allowed
  /\ sim.reason = "NOT_MUTUALS"

\* C6: a PUBLIC poll is viewable by every viewer, the anonymous one included,
\* with reason OK, whatever Block or Mute edges exist between viewer and owner.
C6_PublicPollAlwaysViewable ==
  (sim.targetType = "poll" /\ sim.result = "OK"
     /\ polls[sim.pollId].visibility = "PUBLIC") =>
    /\ sim.allowed
    /\ sim.enforced
    /\ sim.op = "simulateVisibility" => sim.reason = "OK"

\* the owner has blocked and muted the viewer, who still sees the poll
C6_Witness ==
  /\ sim.op = "simulateVisibility"
  /\ sim.targetType = "poll"
  /\ sim.result = "OK"
  /\ polls[sim.pollId].visibility = "PUBLIC"
  /\ isBlocked(polls[sim.pollId].ownerId, sim.viewer)
  /\ isMuted(polls[sim.pollId].ownerId, sim.viewer)
  /\ sim.allowed

\* C10: the stored flipFlopCount of a (poll, author) response never decreases
\* and is never reset, also when submissions for the pair run concurrently.
C10_FlipFlopCountNeverDecreases ==
  [][\A k \in SliderKeys :
       sliderResponses[k].exists =>
         /\ sliderResponses'[k].exists
         /\ sliderResponses'[k].flipFlopCount >= sliderResponses[k].flipFlopCount]_vars

\* C11: the first submitSliderResponse for a (poll, author) stores flipFlopCount
\* 0, and each later one, run after the previous has completed, stores the
\* previous count plus exactly 1, whether or not the value differs.
C11_SubmitCountsEveryResubmission ==
  (last.op = "submitSliderResponse" /\ last.result = "OK") =>
    /\ last.postRow.exists
    /\ sliderResponses[<<last.pollId, last.a>>].value = last.value
    /\ last.postRow.flipFlopCount =
         IF last.preRow.exists THEN last.preRow.flipFlopCount + 1 ELSE 0

\* a third submission repeats the stored value 7 and stores count 2
C11_Witness ==
  /\ last.op = "submitSliderResponse"
  /\ last.result = "OK"
  /\ last.preRow.exists
  /\ last.preRow.flipFlopCount = 1
  /\ last.preValue = 7
  /\ last.value = 7
  /\ last.postRow.flipFlopCount = 2

\* C12: every change of a voter's discrete vote increments flipFlopCount by
\* exactly 1: a vote cast right after removeVote of the old option carries the
\* removed vote's count plus 1, and voting for the same option again adds 1.
C12_VoteChangeIncrementsCount ==
  (last.op = "vote" /\ last.result = "OK") =>
    /\ last.postRow.exists
    /\ last.afterRemove => last.postRow.flipFlopCount = last.removedCount + 1
    /\ last.preRow.exists => last.postRow.flipFlopCount = last.preRow.flipFlopCount + 1

\* C13: in every reachable state, every vote or slider response with
\* isSharedPublicly = true belongs to a poll whose visibility is PUBLIC, also
\* after a poll update has changed the poll's visibility.
C13_SharedPubliclyOnlyOnPublicPolls ==
  /\ \A k \in VoteKeys :
       (votes[k].exists /\ votes[k].isSharedPublicly)
         => polls[votes[k].pollId].visibility = "PUBLIC"
  /\ \A k \in SliderKeys :
       (sliderResponses[k].exists /\ sliderResponses[k].isSharedPublicly)
         => polls[sliderResponses[k].pollId].visibility = "PUBLIC"

\* C14: a visibility update of a response by a requester who is not its author
\* is rejected with a validation failure and leaves isHidden, isSharedPublicly
\* and publicComment of the response unchanged.
C14_NonAuthorVisibilityUpdateRejected ==
  (/\ last.op \in {"updateVoteVisibility", "updateSliderResponseVisibility"}
   /\ last.preRow.exists
   /\ last.a # last.b) =>
    /\ last.result = "VALIDATION_ERROR"
    /\ last.postRow = last.preRow

\* a non-author's update of a hidden, commented vote has been rejected
C14_Witness ==
  /\ last.op = "updateVoteVisibility"
  /\ last.preRow.exists
  /\ last.preRow.isHidden
  /\ last.preRow.publicComment # NoComment
  /\ last.a # last.b
  /\ last.result = "VALIDATION_ERROR"

\* C15: every reason simulateVisibility returns is one of OK,
\* PRIVATE_LINK_REQUIRED, NOT_MUTUALS, BLOCKED, PRIVATE_NOT_MUTUALS,
\* CANNOT_VIEW_POLL, RESPONSE_HIDDEN.
C15_SimulatorReasonsAreTheContractStrings ==
  (sim.op = "simulateVisibility" /\ sim.result = "OK") =>
    sim.reason \in {"OK", "PRIVATE_LINK_REQUIRED", "NOT_MUTUALS", "BLOCKED",
                    "PRIVATE_NOT_MUTUALS", "CANNOT_VIEW_POLL", "RESPONSE_HIDDEN"}

\* C16: a denied access decision is returned as a value with allowed = false
\* and never raised as an error; a target that does not exist is the separate
\* NotFound failure, so the two are told apart.
C16_DenialIsAValueNotAnError ==
  (sim.op \in {"canViewPoll", "getUserByHandle"}) =>
    /\ sim.denied => (sim.thrown = "none" /\ ~sim.allowed)
    /\ ~sim.found => sim.thrown = "NOT_FOUND"

\* C19: when submitSliderResponse calls for one (poll, author) run
\* concurrently, the stored value and flipFlopCount are both the pair written
\* by the call whose write was applied last; they never come from two calls.
C19_LastWriterWinsOnValueAndCount ==
  (last.op = "upsert") =>
    /\ sliderResponses[<<last.pollId, last.a>>].exists
    /\ sliderResponses[<<last.pollId, last.a>>].value = last.value
    /\ sliderResponses[<<last.pollId, last.a>>].flipFlopCount = last.flipFlopCount

\* a call that read before any write is applied last, with its value 5 and its
\* count 0, while a call that has read the stored count 1 is still in flight
C19_Witness ==
  /\ last.op = "upsert"
  /\ last.value = 5
  /\ last.flipFlopCount = 0
  /\ sliderResponses[<<last.pollId, last.a>>].value = 5
  /\ sliderResponses[<<last.pollId, last.a>>].flipFlopCount = 0
  /\ \E q \in Procs :
       /\ procs[q].pc = "upsert"
       /\ procs[q].pollId = last.pollId
       /\ procs[q].userId = last.a
       /\ procs[q].value = 7
       /\ procs[q].flipFlopCount = 2

\* C17: with only per-edge atomicity, a follow(a,b) whose checks have passed
\* creates its Follow row whatever Block rows a concurrent block has written
\* by then and leaves them alone, so that both calls succeed and a state
\* holding the Block edge and a Follow edge of the pair is reached (the witness).
C17_FollowCreateIgnoresConcurrentBlock ==
  [][\A p \in Procs :
       (procs[p].op = "follow" /\ procs[p].pc = "create" /\ procs'[p].pc = "done") =>
         /\ procs'[p].result =
              (IF <<procs[p].a, procs[p].b>> \in follows THEN "CONFLICT" ELSE "OK")
         /\ <<procs[p].a, procs[p].b>> \in follows'
         /\ blocks' = blocks]_vars

\* follow(a,b) and block(b,a) have both returned OK, and Follow(a,b) stands
\* next to Block(b,a)
C17_Witness ==
  \E p \in Procs, q \in Procs :
    /\ procs[p].op = "follow" /\ procs[p].pc = "done" /\ procs[p].result = "OK"
    /\ procs[q].op = "block" /\ procs[q].pc = "done" /\ procs[q].result = "OK"
    /\ procs[q].a = procs[p].b
    /\ procs[q].b = procs[p].a
    /\ isFollowing(procs[p].a, procs[p].b)
    /\ isBlocked(procs[p].b, procs[p].a)

\* C18: of the identical follow(a,b) requests that ran concurrently (each
\* found no Follow(a,b) at its lookup), exactly one succeeds and every other
\* one fails with Conflict, and Follow(a,b) exists afterwards. The Follow
\* table is a set of keys: a duplicate row would show as a second success.
C18_ConcurrentFollowsOneSucceeds ==
  \A a \in Users, b \in Users :
    LET raced == {p \in Procs : /\ procs[p].op = "follow" /\ procs[p].pc = "done"
                                /\ procs[p].a = a /\ procs[p].b = b
                                /\ a # b /\ ~procs[p].preEdge}
    IN Cardinality(raced) >= 2 =>
         /\ isFollowing(a, b)
         /\ Cardinality({p \in raced : procs[p].result = "OK"}) = 1
         /\ \A p \in raced : procs[p].result \in {"OK", "CONFLICT"}

\* two follow(alice, bob) requests that both found no row have returned, one
\* with OK and one with CONFLICT
C18_Witness ==
  \E p \in Procs, q \in Procs :
    /\ procs[p].op = "follow" /\ procs[p].pc = "done" /\ ~procs[p].preEdge
    /\ procs[q].op = "follow" /\ procs[q].pc = "done" /\ ~procs[q].preEdge
    /\ procs[p].a = "alice" /\ procs[p].b = "bob"
    /\ procs[q].a = "alice" /\ procs[q].b = "bob"
    /\ procs[p].result = "OK"
    /\ procs[q].result = "CONFLICT"
    /\ isFollowing("alice", "bob")

\* C20: getMutualFollows(a,b) and getRelationshipStatus(a,b) report areMutuals
\* as Follow(a,b) and Follow(b,a) held at one single instant during the call,
\* also with follow, unfollow or block calls on the pair running concurrently;
\* areMutuals = true is reported only if both edges existed at the same time.
C20_AreMutualsIsOneInstant ==
  \A p \in Procs :
    (procs[p].op \in ReadOps /\ procs[p].pc = "done") =>
      /\ procs[p].areMutuals => procs[p].everBoth
      /\ ~procs[p].areMutuals => procs[p].everNotBoth

\* C20 as amended: each of the two lookups reports its own edge as the store
\* held it at some instant during the call, the two instants being possibly
\* different; areMutuals = true is reported only if each edge existed at some
\* instant during the call, areMutuals = false only if at some instant during
\* the call the two edges did not both exist.
C20_AreMutualsIsOneInstantPerEdge ==
  \A p \in Procs :
    (procs[p].op \in ReadOps /\ procs[p].pc = "done") =>
      /\ procs[p].areMutuals = (procs[p].val1 /\ procs[p].val2)
      /\ procs[p].areMutuals => (procs[p].ever1 /\ procs[p].ever2)
      /\ ~procs[p].areMutuals => procs[p].everNotBoth

\* a read has reported areMutuals = true although the two edges never existed
\* together while it ran
C20_Witness ==
  \E p \in Procs :
    /\ procs[p].op = "getMutualFollows"
    /\ procs[p].pc = "done"
    /\ procs[p].areMutuals
    /\ procs[p].ever1
    /\ procs[p].ever2
    /\ ~procs[p].everBoth

\* C21: Mute edges never influence an access decision: between two states
\* that differ only in Mute edges every poll, response and profile decision
\* for every viewer is the same. Any two sets of Mute edges are joined by mute
\* and unmute calls, so it is stated for the steps that change Mute edges only.
C21_MuteNeverChangesADecision ==
  [][(mutes' # mutes /\ UNCHANGED <<follows, blocks, isPrivate, followRequests, contentVars>>)
       => /\ PollDecisions' = PollDecisions
          /\ ResponseDecisions' = ResponseDecisions
          /\ ProfileDecisions' = ProfileDecisions
          /\ SimulatorDecisions' = SimulatorDecisions]_vars

\* a viewer has just muted the owner of a FRIENDS_ONLY poll, a mutual follow,
\* and still views the poll
C21_Witness ==
  /\ last.op = "mute"
  /\ last.result = "OK"
  /\ isMuted(last.a, last.b)
  /\ \E p \in PollIds :
       /\ polls[p].exists
       /\ polls[p].visibility = "FRIENDS_ONLY"
       /\ polls[p].ownerId = last.b
       /\ getMutualFollows(last.a, last.b).areMutuals
       /\ PollRepository_canViewPoll(p, last.a, NoToken)

\* C22: follow(a,b) is rejected with a Conflict, creating and changing no
\* edge, when Follow(a,b) already exists or when b has blocked a.
C22_FollowRejectedWhenFollowingOrBlocked ==
  [][(/\ last'.op = "follow"
      /\ \/ <<last'.a, last'.b>> \in follows
         \/ <<last'.b, last'.a>> \in blocks)
       => /\ last'.result = "CONFLICT"
          /\ UNCHANGED <<follows, blocks, mutes, followRequests>>]_vars

\* a follow by a user the followee has blocked, with no Follow edge before it,
\* has just been rejected
C22_Witness ==
  /\ last.op = "follow"
  /\ last.result = "CONFLICT"
  /\ ~last.preFollow
  /\ <<last.b, last.a>> \in blocks
  /\ <<last.a, last.b>> \notin follows

C28_BlockExcludesFollowBothWays ==
  \A a \in Users, b \in Users :
    <<a, b>> \in blocks => (<<a, b>> \notin follows /\ <<b, a>> \notin follows)

\* C28 as it holds: in every state reached by completed calls, a Block edge
\* from a to b excludes the Follow edge from b to a (the blocked user does not
\* follow the blocker).
C28_BlockExcludesFollowByBlocked ==
  \A a \in Users, b \in Users :
    <<a, b>> \in blocks => <<b, a>> \notin follows

\* the blocked user has just tried to follow the blocker and was rejected,
\* while the blocker follows the blocked user
C28_Witness ==
  /\ last.op = "follow"
  /\ last.result = "CONFLICT"
  /\ <<last.b, last.a>> \in blocks
  /\ <<last.a, last.b>> \notin follows
  /\ <<last.b, last.a>> \in follows

\* C30: unfollow, unblock and unmute of an edge that does not exist fail with
\* NotFound and change no edge; they are never a successful no-op.
C30_RemovingMissingEdgeIsNotFound ==
  [][(\/ last'.op = "unfollow" /\ <<last'.a, last'.b>> \notin follows
      \/ last'.op = "unblock" /\ <<last'.a, last'.b>> \notin blocks
      \/ last'.op = "unmute" /\ <<last'.a, last'.b>> \notin mutes)
       => /\ last'.result = "NOT_FOUND"
          /\ UNCHANGED <<follows, blocks, mutes, followRequests>>]_vars

\* an unmute of a pair with no Mute edge, while the reverse Mute edge exists,
\* has just failed and the reverse edge is still there
C30_Witness ==
  /\ last.op = "unmute"
  /\ last.result = "NOT_FOUND"
  /\ <<last.a, last.b>> \notin mutes
  /\ <<last.b, last.a>> \in mutes

\* C24: in every reachable state a poll has a privateLinkToken exactly when
\* its visibility is PRIVATE_LINK, after creation and after any poll update
\* that changes the visibility.
C24_TokenIffPrivateLink ==
  \A p \in PollIds :
    polls[p].exists =>
      (Truthy(polls[p].privateLinkToken) <=> polls[p].visibility = "PRIVATE_LINK")

\* C25: whoever cannot view a poll cannot respond to it: a vote or slider
\* response on a FRIENDS_ONLY poll is recorded only for the owner or a mutual
\* follow of the owner at that time, and on a PRIVATE_LINK poll only with the
\* matching token (vote and submitSliderResponse take no token).
C25_ResponseOnlyByViewers ==
  (/\ last.op \in {"vote", "submitSliderResponse"}
   /\ last.result = "OK"
   /\ last.postRow.exists)
    => LET poll == polls[last.pollId] IN
       /\ poll.visibility = "FRIENDS_ONLY"
            => \/ poll.ownerId = last.a
               \/ getMutualFollows(last.a, poll.ownerId).areMutuals
       /\ poll.visibility = "PRIVATE_LINK"
            => (Truthy(NoToken) /\ poll.privateLinkToken = NoToken)

\* C26: whatever votes and vote removals came before, a voter holds at most
\* one vote on a SINGLE-selection poll and at most maxSelections votes on a
\* MULTIPLE-selection poll.
C26_VotesWithinSelectionLimit ==
  \A p \in PollIds, u \in Users :
    polls[p].exists =>
      /\ polls[p].selectionType = "SINGLE"
           => Cardinality(getUserVoteForPoll(p, u)) <= 1
      /\ polls[p].selectionType = "MULTIPLE"
           => Cardinality(getUserVoteForPoll(p, u)) <= polls[p].maxSelections

\* C29: every result of simulateVisibility has allowed = true exactly when
\* its reason is OK, for every target type and viewer, the author of a hidden
\* response included.
C29_AllowedExactlyWhenReasonOK ==
  (sim.op = "simulateVisibility" /\ sim.result = "OK") =>
    (sim.allowed <=> sim.reason = "OK")

\* C27: just-in-time provisioning is free of races: of any set of concurrent
\* authenticated requests every one succeeds, and once it has ended there is
\* exactly one local user with its Clerk id; a request for a Clerk id that is
\* already provisioned returns the existing user and creates nothing.
C27_ProvisioningIsRaceFree ==
  \A p \in Procs :
    (procs[p].op = "getOrCreateUser" /\ procs[p].pc = "done")
      => /\ procs[p].result = "OK"
         /\ Cardinality(findByClerkId(procs[p].a)) = 1

====
